---- MODULE Spec2Model ----
(***************************************************************************)
(* Model of the question deduplication engine of                           *)
(* src/scripts/deduplicate_questions.py.                                   *)
(*                                                                         *)
(* Python values are modelled as follows.  A str is a sequence of          *)
(* one-character strings, None is the one-element tuple <<"None">> (no str *)
(* equals it), a dict is a function whose domain is its set of keys (a     *)
(* missing key is a key outside the domain), a list is a sequence.  The    *)
(* list `questions` is indexed from 0 as in the source, so it is a         *)
(* function on 0..N-1.                                                     *)
(***************************************************************************)
EXTENDS Integers, Sequences, FiniteSets, TLC

VARIABLES
    questions,        \* the list handed to the function under call (the caller's objects)
    original,         \* value of `questions` when the call started (ghost)
    pc,               \* position of the call
    duplicates,       \* deduplicate_questions: result of find_duplicates, an ordered dict
    gi,               \* deduplicate_questions: position of the loop over duplicates.items()
    indices_to_keep,  \* deduplicate_questions: set of indices still to keep
    deduplicated,     \* deduplicate_questions: output list
    report,           \* deduplicate_questions: report dict
    origin,           \* for each output record, the input index it is a copy of (ghost)
    run,              \* number of the current run of deduplicate_questions
    ret,              \* value returned by the function under call
    disk,             \* the data directory: file name -> state of the file
    args,             \* arguments of the method under call
    sent,             \* MCPClient: the queries handed to the language model
    default_mode      \* MCPClient: the field default_mode

vars == <<questions, original, pc, duplicates, gi, indices_to_keep,
          deduplicated, report, origin, run, ret, disk, args, sent, default_mode>>

\* the state outside the deduplication functions
outside == <<disk, args, sent, default_mode>>

\* the locals of deduplicate_questions
locals == <<duplicates, gi, indices_to_keep, deduplicated, report, origin, run>>

---------------------------------------------------------------------------
(* Bounds of the model *)

MaxN == 4          \* longest input list of deduplicate_questions
MaxGroup == 3      \* longest index list handed directly to a helper
MaxRuns == 2       \* runs of deduplicate_questions chained on their own output

---------------------------------------------------------------------------
(* Python values *)

None == <<"None">>

EmptyDict == <<>>

\* dict.get(k, d)
Get(q, k, d) == IF k \in DOMAIN q THEN q[k] ELSE d

\* d[k] = v
Put(q, k, v) == [j \in (DOMAIN q) \cup {k} |-> IF j = k THEN v ELSE q[j]]

\* truth value of a str, a dict or None
Truthy(v) == v # None /\ v # <<>>

\* code point of a character
Ord(c) ==
    CASE c = " " -> 32
      [] c = "." -> 46
      [] c = "/" -> 47
      [] c = "0" -> 48
      [] c = "1" -> 49
      [] c = "2" -> 50
      [] c = "3" -> 51
      [] c = "6" -> 54
      [] c = "9" -> 57
      [] c = "A" -> 65
      [] c = "B" -> 66
      [] c = "I" -> 73
      [] c = "N" -> 78
      [] c = "T" -> 84
      [] c = "U" -> 85
      [] c = "a" -> 97
      [] c = "b" -> 98
      [] c = "c" -> 99
      [] c = "k" -> 107
      [] c = "n" -> 110
      [] c = "o" -> 111
      [] c = "t" -> 116
      [] c = "w" -> 119

Digits == {"0", "1", "2", "3", "6", "9"}

DigitVal(c) == Ord(c) - Ord("0")

\* str < str: lexicographic by code point
RECURSIVE StrLess(_, _)
StrLess(s, t) ==
    IF t = <<>> THEN FALSE
    ELSE IF s = <<>> THEN TRUE
    ELSE IF Ord(Head(s)) # Ord(Head(t)) THEN Ord(Head(s)) < Ord(Head(t))
    ELSE StrLess(Tail(s), Tail(t))

\* sorted(list(S)) for a set of str
RECURSIVE Sorted(_)
Sorted(S) ==
    IF S = {} THEN <<>>
    ELSE LET m == CHOOSE x \in S : \A y \in S \ {x} : StrLess(x, y)
         IN  <<m>> \o Sorted(S \ {m})

\* str.strip(): leading and trailing whitespace removed
RECURSIVE LStrip(_)
LStrip(s) == IF s # <<>> /\ Head(s) = " " THEN LStrip(Tail(s)) ELSE s

RECURSIVE RStrip(_)
RStrip(s) ==
    IF s # <<>> /\ s[Len(s)] = " " THEN RStrip(SubSeq(s, 1, Len(s) - 1)) ELSE s

\* variant: the text is taken as it is
Strip_Nothing(s) == s

Strip(s) == RStrip(LStrip(s))

\* int(s) returns for a str of decimal digits and raises ValueError otherwise
IsNumeric(s) == s # <<>> /\ \A i \in 1..Len(s) : s[i] \in Digits

RECURSIVE IntOf(_)
IntOf(s) ==
    IF s = <<>> THEN 0
    ELSE 10 * IntOf(SubSeq(s, 1, Len(s) - 1)) + DigitVal(s[Len(s)])

\* the set of elements of a list
Range(s) == {s[i] : i \in 1..Len(s)}

\* len() of a list held as a function on 0..N-1
Count(qs) == Cardinality(DOMAIN qs)

\* a sequence as a list indexed from 0
AsList(s) == [i \in 0..(Len(s) - 1) |-> s[i + 1]]

---------------------------------------------------------------------------
(* Parts of the initial states *)

\* no file is looked at, no method is under call, no MCPClient is constructed
NoOutside ==
    /\ disk = EmptyDict
    /\ args = EmptyDict
    /\ sent = <<>>
    /\ default_mode = None

\* deduplicate_questions has not started
NoLocals ==
    /\ duplicates = <<>>
    /\ gi = 1
    /\ indices_to_keep = {}
    /\ deduplicated = <<>>
    /\ report = EmptyDict
    /\ origin = <<>>
    /\ run = 1

---------------------------------------------------------------------------
(* Program constants *)

SentinelYear == 9999

UNKNOWN == <<"U", "n", "k", "n", "o", "w", "n">>

---------------------------------------------------------------------------
(* find_duplicates *)

\* question_texts after the loop has handled indices 0..n-1: the ordered dict
\* as the sequence of its items, in insertion order
RECURSIVE question_texts(_, _)
question_texts(qs, n) ==
    IF n = 0 THEN <<>>
    ELSE LET acc == question_texts(qs, n - 1)
             text == Strip(Get(qs[n - 1], "question", <<>>))
             pos == {p \in 1..Len(acc) : acc[p].text = text}
         IN  IF pos = {}
             THEN Append(acc, [text |-> text, indices |-> <<n - 1>>])
             ELSE [acc EXCEPT ![CHOOSE p \in pos : TRUE].indices = Append(@, n - 1)]

\* variant: a text seen once is reported as well
IsDuplicate_Singletons(item) == Len(item.indices) > 0

\* len(indices) > 1
IsDuplicate(item) == Len(item.indices) > 1

\* variant: the groups come out last seen first
find_duplicates_LastSeenFirst(qs) ==
    LET found == SelectSeq(question_texts(qs, Count(qs)), IsDuplicate)
    IN  [p \in 1..Len(found) |-> found[Len(found) + 1 - p]]

\* the items of question_texts with more than one index, in dict order
find_duplicates(qs) == SelectSeq(question_texts(qs, Count(qs)), IsDuplicate)

---------------------------------------------------------------------------
(* select_canonical_version *)

\* variant: the year is read as q['year'], which raises for a missing year
priority_key_raises_MissingYear(q) ==
    \/ "year" \notin DOMAIN q
    \/ ~IsNumeric(q["year"])

\* int(q.get('year', 9999)) raises ValueError for a year that is not numeric
priority_key_raises(q) ==
    /\ Truthy(Get(q, "year", None))
    /\ ~IsNumeric(q["year"])

\* variant: the year is compared before the unit
priority_key_YearFirst(q) ==
    LET unit == Get(q, "unit", UNKNOWN)
        year == IF Truthy(Get(q, "year", None)) THEN IntOf(q["year"]) ELSE SentinelYear
        has_metadata ==
            IF "metadata" \in DOMAIN q /\ DOMAIN q["metadata"] # {} THEN 1 ELSE 0
    IN  <<year, IF unit = UNKNOWN THEN 1 ELSE 0, -has_metadata>>

\* variant: a missing year counts as 0 instead of the sentinel
priority_key_MissingYearZero(q) ==
    LET unit == Get(q, "unit", UNKNOWN)
        year == IF Truthy(Get(q, "year", None)) THEN IntOf(q["year"]) ELSE 0
        has_metadata ==
            IF "metadata" \in DOMAIN q /\ DOMAIN q["metadata"] # {} THEN 1 ELSE 0
    IN  <<IF unit = UNKNOWN THEN 1 ELSE 0, year, -has_metadata>>

\* variant: the metadata is left out of the key
priority_key_NoMetadata(q) ==
    LET unit == Get(q, "unit", UNKNOWN)
        year == IF Truthy(Get(q, "year", None)) THEN IntOf(q["year"]) ELSE SentinelYear
    IN  <<IF unit = UNKNOWN THEN 1 ELSE 0, year, 0>>

\* the key (unit == 'Unknown', year, -has_metadata), False and True as 0 and 1
priority_key(q) ==
    LET unit == Get(q, "unit", UNKNOWN)
        year == IF Truthy(Get(q, "year", None)) THEN IntOf(q["year"]) ELSE SentinelYear
        has_metadata ==
            IF "metadata" \in DOMAIN q /\ DOMAIN q["metadata"] # {} THEN 1 ELSE 0
    IN  <<IF unit = UNKNOWN THEN 1 ELSE 0, year, -has_metadata>>

\* tuple < tuple
KeyLess(a, b) ==
    \/ a[1] < b[1]
    \/ a[1] = b[1] /\ a[2] < b[2]
    \/ a[1] = b[1] /\ a[2] = b[2] /\ a[3] < b[3]

\* variant: the running minimum also gives way to an equal key
RECURSIVE min_upto_LastWins(_, _, _)
min_upto_LastWins(qs, indices, k) ==
    IF k = 1 THEN indices[1]
    ELSE LET best == min_upto_LastWins(qs, indices, k - 1)
         IN  IF KeyLess(priority_key(qs[best]), priority_key(qs[indices[k]]))
             THEN best
             ELSE indices[k]

\* min(candidates, key=priority_key) after the candidates at positions 1..k:
\* the running minimum is replaced only by a strictly smaller key
RECURSIVE min_upto(_, _, _)
min_upto(qs, indices, k) ==
    IF k = 1 THEN indices[1]
    ELSE LET best == min_upto(qs, indices, k - 1)
         IN  IF KeyLess(priority_key(qs[indices[k]]), priority_key(qs[best]))
             THEN indices[k]
             ELSE best

\* min() of an empty list raises ValueError, and so does a key that raises
select_raises(qs, indices) ==
    \/ indices = <<>>
    \/ \E p \in 1..Len(indices) : priority_key_raises(qs[indices[p]])

\* the canonical index returned (the canonical question is qs[that index])
select_canonical_version(qs, indices) == min_upto(qs, indices, Len(indices))

---------------------------------------------------------------------------
(* merge_sources *)

\* str() of a str is that str
Str(v) == v

\* variant: a missing field is entered as the empty string
provenance_entry_EmptyDefaults(qs, idx) ==
    [year |-> Get(qs[idx], "year", <<>>),
     source_file |-> Get(qs[idx], "source_file", <<>>),
     question_number |-> Get(qs[idx], "question_number", <<>>),
     original_index |-> idx]

\* one entry of sources: q.get(...) is None for a missing field
provenance_entry(qs, idx) ==
    [year |-> Get(qs[idx], "year", None),
     source_file |-> Get(qs[idx], "source_file", None),
     question_number |-> Get(qs[idx], "question_number", None),
     original_index |-> idx]

\* variant: a missing year is entered as the sentinel
years_of_SentinelForMissing(qs, indices) ==
    {IF Truthy(Get(qs[indices[p]], "year", None))
     THEN Str(qs[indices[p]]["year"])
     ELSE <<"9", "9", "9", "9">> : p \in 1..Len(indices)}

years_of(qs, indices) ==
    {Str(qs[indices[p]]["year"]) :
        p \in {x \in 1..Len(indices) : Truthy(Get(qs[indices[x]], "year", None))}}

source_files_of(qs, indices) ==
    {qs[indices[p]]["source_file"] :
        p \in {x \in 1..Len(indices) : Truthy(Get(qs[indices[x]], "source_file", None))}}

\* variant: original_index is the position in the group, not the index
merge_sources_PositionAsIndex(qs, indices) ==
    [source_pdfs |-> Sorted(source_files_of(qs, indices)),
     years_found |-> Sorted(years_of(qs, indices)),
     all_sources |-> [p \in 1..Len(indices) |->
                         [provenance_entry(qs, indices[p]) EXCEPT !.original_index = p - 1]],
     duplicate_count |-> Len(indices)]

\* variant: years and source files are kept in lists, neither collapsed nor sorted
merge_sources_Lists(qs, indices) ==
    LET entries == [p \in 1..Len(indices) |-> provenance_entry(qs, indices[p])]
        HasFile(e) == Truthy(e.source_file)
        HasYear(e) == Truthy(e.year)
        files == SelectSeq(entries, HasFile)
        years == SelectSeq(entries, HasYear)
    IN  [source_pdfs |-> [p \in 1..Len(files) |-> files[p].source_file],
         years_found |-> [p \in 1..Len(years) |-> Str(years[p].year)],
         all_sources |-> entries,
         duplicate_count |-> Len(indices)]

merge_sources(qs, indices) ==
    [source_pdfs |-> Sorted(source_files_of(qs, indices)),
     years_found |-> Sorted(years_of(qs, indices)),
     all_sources |-> [p \in 1..Len(indices) |-> provenance_entry(qs, indices[p])],
     duplicate_count |-> Len(indices)]

---------------------------------------------------------------------------
(* deduplicate_questions *)

\* variant: every member of a group is counted as a duplicate instance
initial_report_CountsMembers(qs, dups) ==
    [total_original |-> Count(qs),
     total_duplicates_found |-> Len(dups),
     total_duplicate_instances |-> LET F[k \in 0..Len(dups)] ==
                                           IF k = 0 THEN 0
                                           ELSE F[k - 1] + Len(dups[k].indices)
                                   IN  F[Len(dups)],
     duplicate_groups |-> <<>>]

\* the report dict as first built
initial_report(qs, dups) ==
    [total_original |-> Count(qs),
     total_duplicates_found |-> Len(dups),
     total_duplicate_instances |-> LET F[k \in 0..Len(dups)] ==
                                           IF k = 0 THEN 0
                                           ELSE F[k - 1] + (Len(dups[k].indices) - 1)
                                   IN  F[Len(dups)],
     duplicate_groups |-> <<>>]

\* variant: the count stored is the number of discarded duplicates
enhanced_metadata_CountsDiscarded(canonical_q, merged_sources) ==
    LET m0 == IF "metadata" \in DOMAIN canonical_q THEN canonical_q["metadata"] ELSE EmptyDict
        m1 == Put(m0, "source_pdfs", merged_sources.source_pdfs)
        m2 == Put(m1, "years_found", merged_sources.years_found)
        m3 == Put(m2, "is_deduplicated", TRUE)
    IN  Put(m3, "duplicate_count", merged_sources.duplicate_count - 1)

\* the metadata dict of the enhanced canonical question after the four stores
enhanced_metadata(canonical_q, merged_sources) ==
    LET m0 == IF "metadata" \in DOMAIN canonical_q THEN canonical_q["metadata"] ELSE EmptyDict
        m1 == Put(m0, "source_pdfs", merged_sources.source_pdfs)
        m2 == Put(m1, "years_found", merged_sources.years_found)
        m3 == Put(m2, "is_deduplicated", TRUE)
    IN  Put(m3, "duplicate_count", merged_sources.duplicate_count)

\* enhanced_q as appended to the output
enhanced_question(canonical_q, merged_sources) ==
    Put(Put(canonical_q, "source_metadata", merged_sources),
        "metadata", enhanced_metadata(canonical_q, merged_sources))

\* variant: the stores into the metadata dict land in the first question of
\* the list
questions_after_enhance_FirstQuestion(qs, canonical_idx, merged_sources) ==
    IF "metadata" \in DOMAIN qs[0]
    THEN [qs EXCEPT ![0] = Put(@, "metadata", enhanced_metadata(qs[0], merged_sources))]
    ELSE qs

\* canonical_q.copy() is shallow: when the canonical question has a metadata
\* dict, enhanced_q shares it, and the stores into it show in the input list
questions_after_enhance(qs, canonical_idx, merged_sources) ==
    IF "metadata" \in DOMAIN qs[canonical_idx]
    THEN [qs EXCEPT ![canonical_idx] =
              Put(@, "metadata", enhanced_metadata(qs[canonical_idx], merged_sources))]
    ELSE qs

\* variant: no index is discarded
discarded_Nothing(indices, canonical_idx) == {}

\* the indices discarded from indices_to_keep for one group
discarded(indices, canonical_idx) == Range(indices) \ {canonical_idx}

\* variant: duplicate_indices lists the discarded indices only
group_entry_DiscardedOnly(canonical_idx, canonical_q, indices, merged_sources) ==
    LET NotCanonical(i) == i # canonical_idx
    IN  [canonical_index |-> canonical_idx,
         canonical_unit |-> Get(canonical_q, "unit", None),
         canonical_year |-> Get(canonical_q, "year", None),
         duplicate_indices |-> SelectSeq(indices, NotCanonical),
         merged_sources |-> merged_sources]

\* the entry appended to report['duplicate_groups']
group_entry(canonical_idx, canonical_q, indices, merged_sources) ==
    [canonical_index |-> canonical_idx,
     canonical_unit |-> Get(canonical_q, "unit", None),
     canonical_year |-> Get(canonical_q, "year", None),
     duplicate_indices |-> indices,
     merged_sources |-> merged_sources]

\* sorted() of a set of indices
RECURSIVE SortedInts(_)
SortedInts(S) ==
    IF S = {} THEN <<>>
    ELSE LET m == CHOOSE x \in S : \A y \in S : x <= y
         IN  <<m>> \o SortedInts(S \ {m})

canonical_indices(rep) ==
    {rep.duplicate_groups[k].canonical_index : k \in 1..Len(rep.duplicate_groups)}

\* variant: the canonical indices are not filtered out
non_duplicates_NoCanonicalFilter(keep, rep) == SortedInts(keep)

\* variant: the kept indices are visited in descending order
non_duplicates_Descending(keep, rep) ==
    LET asc == SelectSeq(SortedInts(keep), LAMBDA i : i \notin canonical_indices(rep))
    IN  [p \in 1..Len(asc) |-> asc[Len(asc) + 1 - p]]

\* the indices the second loop copies, in the order it visits them
non_duplicates(keep, rep) ==
    SelectSeq(SortedInts(keep), LAMBDA i : i \notin canonical_indices(rep))

\* variant: the copy gets a metadata dict of its own with the one key
non_duplicate_question_FreshMetadata(q) ==
    Put(q, "metadata", Put(EmptyDict, "is_deduplicated", FALSE))

\* variant: the flag is stored only in a metadata dict the question has
non_duplicate_question_ExistingMetadata(q) ==
    IF "metadata" \in DOMAIN q
    THEN Put(q, "metadata", Put(q["metadata"], "is_deduplicated", FALSE))
    ELSE q

\* the copy of a non-duplicate question as appended to the output
non_duplicate_question(q) ==
    Put(q, "metadata",
        Put(IF "metadata" \in DOMAIN q THEN q["metadata"] ELSE EmptyDict,
            "is_deduplicated", FALSE))

\* questions[i].copy() is shallow: a metadata dict the question already has
\* is shared with the copy, and the store into it shows in the input list
questions_after_copies(qs, kept) ==
    [i \in DOMAIN qs |->
        IF i \in Range(kept) /\ "metadata" \in DOMAIN qs[i]
        THEN non_duplicate_question(qs[i])
        ELSE qs[i]]

\* the report with its two final entries
final_report(rep, out) ==
    Put(Put(rep, "total_after_deduplication", Len(out)),
        "questions_removed", rep.total_original - Len(out))

---------------------------------------------------------------------------
(* Inputs *)

\* dict literal from a sequence of <<key, value>> items
RECURSIVE Dict(_)
Dict(items) ==
    IF items = <<>> THEN EmptyDict
    ELSE Put(Dict(SubSeq(items, 1, Len(items) - 1)),
             items[Len(items)][1], items[Len(items)][2])

BBIT106 == <<"B", "B", "I", "T", "1", "0", "6">>

NotAYear == <<"N", "/", "A">>

CallerMetadata == Dict(<< <<"topic", <<"t">>>> >>)

\* question texts of the input corpus: two of them equal after strip()
EngineTexts == {<<"a">>, <<" ", "a">>, <<"b">>, <<"c">>}

\* the other fields of an input question
EngineProfiles ==
    { Dict(<< <<"unit", UNKNOWN>>, <<"source_file", <<"a">>>> >>),
      Dict(<< <<"unit", BBIT106>>, <<"year", <<"1", "9">>>>, <<"source_file", <<"b">>>>,
              <<"question_number", <<"1">>>>, <<"marks", <<"3">>>>,
              <<"metadata", CallerMetadata>> >>),
      Dict(<< <<"year", NotAYear>>, <<"metadata", EmptyDict>> >>) }

EnginePool == {Put(p, "question", t) : p \in EngineProfiles, t \in EngineTexts}


---------------------------------------------------------------------------
(* One run of deduplicate_questions, and a further run on its output *)

\* a corpus of three questions from three papers, two with the same text
WhatIsOOP == <<"W", "h", "a", "t", " ", "i", "s", " ", "O", "O", "P", "?">>

DefineSQL == <<"D", "e", "f", "i", "n", "e", " ", "S", "Q", "L", ".">>

Paper(c) == <<c, ".", "p", "d", "f">>

ThreePapers ==
    AsList(<<
        Dict(<< <<"question", WhatIsOOP>>, <<"unit", UNKNOWN>>,
                <<"year", <<"2", "0", "2", "0">>>>, <<"source_file", Paper("a")>> >>),
        Dict(<< <<"question", WhatIsOOP>>, <<"unit", BBIT106>>,
                <<"year", <<"2", "0", "1", "9">>>>, <<"source_file", Paper("b")>> >>),
        Dict(<< <<"question", DefineSQL>>, <<"unit", BBIT106>>,
                <<"year", <<"2", "0", "2", "1">>>>, <<"source_file", Paper("c")>> >>) >>)

Init ==
    /\ \/ \E n \in 0..MaxN : questions \in [0..(n - 1) -> EnginePool]
       \/ questions = ThreePapers
    /\ original = questions
    /\ pc = "start"
    /\ duplicates = <<>>
    /\ gi = 1
    /\ indices_to_keep = {}
    /\ deduplicated = <<>>
    /\ report = EmptyDict
    /\ origin = <<>>
    /\ run = 1
    /\ ret = None
    /\ NoOutside

\* find_duplicates, indices_to_keep, deduplicated and report are set up
Call ==
    /\ pc = "start"
    /\ duplicates' = find_duplicates(questions)
    /\ indices_to_keep' = DOMAIN questions
    /\ deduplicated' = <<>>
    /\ report' = initial_report(questions, duplicates')
    /\ gi' = 1
    /\ pc' = "groups"
    /\ UNCHANGED outside
    /\ UNCHANGED <<questions, original, origin, run, ret>>

\* one iteration of the loop over the duplicate groups
ProcessGroup ==
    /\ pc = "groups"
    /\ gi <= Len(duplicates)
    /\ ~select_raises(questions, duplicates[gi].indices)
    /\ LET indices == duplicates[gi].indices
           canonical_idx == select_canonical_version(questions, indices)
           canonical_q == questions[canonical_idx]
           merged_sources == merge_sources(questions, indices)
       IN  /\ deduplicated' =
                  Append(deduplicated, enhanced_question(canonical_q, merged_sources))
           /\ questions' = questions_after_enhance(questions, canonical_idx, merged_sources)
           /\ indices_to_keep' = indices_to_keep \ discarded(indices, canonical_idx)
           /\ report' = [report EXCEPT !["duplicate_groups"] =
                  Append(@, group_entry(canonical_idx, canonical_q, indices, merged_sources))]
           /\ origin' = Append(origin, canonical_idx)
    /\ gi' = gi + 1
    /\ UNCHANGED outside
    /\ UNCHANGED <<original, pc, duplicates, run, ret>>

\* select_canonical_version raises ValueError, which nothing catches
GroupRaises ==
    /\ pc = "groups"
    /\ gi <= Len(duplicates)
    /\ select_raises(questions, duplicates[gi].indices)
    /\ pc' = "error"
    /\ UNCHANGED outside
    /\ UNCHANGED <<questions, original, duplicates, gi, indices_to_keep,
                   deduplicated, report, origin, run, ret>>

\* the loop over the non-duplicate questions, the two totals, and the return
AddNonDuplicates ==
    /\ pc = "groups"
    /\ gi > Len(duplicates)
    /\ LET kept == non_duplicates(indices_to_keep, report)
       IN  /\ deduplicated' = deduplicated \o
                  [p \in 1..Len(kept) |-> non_duplicate_question(questions[kept[p]])]
           /\ questions' = questions_after_copies(questions, kept)
           /\ origin' = origin \o kept
    /\ report' = final_report(report, deduplicated')
    /\ pc' = "done"
    /\ UNCHANGED outside
    /\ UNCHANGED <<original, duplicates, gi, indices_to_keep, run, ret>>

\* the output corpus of a run is the input of the next run
Rerun ==
    /\ pc = "done"
    /\ run < MaxRuns
    /\ questions' = AsList(deduplicated)
    /\ original' = AsList(deduplicated)
    /\ pc' = "start"
    /\ duplicates' = <<>>
    /\ gi' = 1
    /\ indices_to_keep' = {}
    /\ deduplicated' = <<>>
    /\ report' = EmptyDict
    /\ origin' = <<>>
    /\ run' = run + 1
    /\ UNCHANGED outside
    /\ UNCHANGED ret

Next == Call \/ ProcessGroup \/ GroupRaises \/ AddNonDuplicates \/ Rerun

Spec == Init /\ [][Next]_vars

---------------------------------------------------------------------------
(* select_canonical_version and merge_sources invoked directly on a group *)

\* the index list of a whole list, ascending
AllIndices(qs) == [p \in 1..Count(qs) |-> p - 1]

\* an optional entry of a dict literal
Opt(k, vs) == {<<>>} \cup {<< <<k, v>> >> : v \in vs}

SelectPool ==
    {Dict(u \o y \o m) :
        u \in Opt("unit", {UNKNOWN, BBIT106}),
        y \in Opt("year", {<<"1", "9">>, <<"2", "0">>, NotAYear}),
        m \in Opt("metadata", {EmptyDict, CallerMetadata})}

MergePool ==
    {Dict(y \o f \o n) :
        y \in Opt("year", {<<"1", "9">>, <<"2", "0">>, <<"9">>}),
        f \in Opt("source_file", {<<"a">>, <<"b">>}),
        n \in Opt("question_number", {<<"1">>})}

InitHelper(pool) ==
    /\ \E n \in 0..MaxGroup : questions \in [0..(n - 1) -> pool]
    /\ original = questions
    /\ pc = "start"
    /\ duplicates = <<>>
    /\ gi = 1
    /\ indices_to_keep = {}
    /\ deduplicated = <<>>
    /\ report = EmptyDict
    /\ origin = <<>>
    /\ run = 1
    /\ ret = None
    /\ NoOutside

InitSelect == InitHelper(SelectPool)

SelectReturns ==
    /\ pc = "start"
    /\ ~select_raises(questions, AllIndices(questions))
    /\ LET canonical_idx == select_canonical_version(questions, AllIndices(questions))
       IN  ret' = <<canonical_idx, questions[canonical_idx]>>
    /\ pc' = "returned"
    /\ UNCHANGED outside
    /\ UNCHANGED <<questions, original, duplicates, gi, indices_to_keep,
                   deduplicated, report, origin, run>>

SelectRaises ==
    /\ pc = "start"
    /\ select_raises(questions, AllIndices(questions))
    /\ pc' = "error"
    /\ UNCHANGED outside
    /\ UNCHANGED <<questions, original, duplicates, gi, indices_to_keep,
                   deduplicated, report, origin, run, ret>>

NextSelect == SelectReturns \/ SelectRaises

SpecSelect == InitSelect /\ [][NextSelect]_vars

InitMerge == InitHelper(MergePool)

MergeReturns ==
    /\ pc = "start"
    /\ ret' = merge_sources(questions, AllIndices(questions))
    /\ pc' = "returned"
    /\ UNCHANGED outside
    /\ UNCHANGED <<questions, original, duplicates, gi, indices_to_keep,
                   deduplicated, report, origin, run>>

NextMerge == MergeReturns

SpecMerge == InitMerge /\ [][NextMerge]_vars

---------------------------------------------------------------------------
(* Vocabulary of the properties of a run of deduplicate_questions *)

Done == pc = "done"

\* the trimmed question text of an input question
TextOf(q) == Strip(Get(q, "question", <<>>))

\* the indices of the input whose trimmed text is that of index i
SameText(i) == {j \in DOMAIN original : TextOf(original[j]) = TextOf(original[i])}

\* index i belongs to a duplicate group
Grouped(i) == Cardinality(SameText(i)) > 1

\* the duplicate groups (positions in `duplicates`) that hold index i
GroupsWith(i) == {g \in 1..Len(duplicates) : i \in Range(duplicates[g].indices)}

\* the duplicate groups whose canonical index, as reported, is i
CanonicalIn(i) ==
    {g \in 1..Len(report["duplicate_groups"]) :
        report["duplicate_groups"][g].canonical_index = i}

\* the output positions whose record is a copy of input index i
Yields(i) == {p \in 1..Len(deduplicated) : origin[p] = i}

FirstPass == 1..Len(duplicates)

SecondPass == (Len(duplicates) + 1)..Len(deduplicated)

\* the original_index values of the provenance trail of an output record
Trail(q) ==
    IF "source_metadata" \in DOMAIN q
    THEN {q["source_metadata"].all_sources[k].original_index :
              k \in 1..Len(q["source_metadata"].all_sources)}
    ELSE {}

\* every output record is a copy of the input question `origin` names
OriginIsCopy ==
    /\ Len(origin) = Len(deduplicated)
    /\ \A p \in 1..Len(deduplicated) :
           /\ origin[p] \in DOMAIN original
           /\ \A k \in DOMAIN original[origin[p]] \ {"metadata", "source_metadata"} :
                  /\ k \in DOMAIN deduplicated[p]
                  /\ deduplicated[p][k] = original[origin[p]][k]

---------------------------------------------------------------------------
(* C1: when deduplicate_questions returns, every input index is in exactly *)
(* one of three classes: the canonical index of exactly one duplicate      *)
(* group, copied once to the output by the first loop; a non-canonical     *)
(* member of exactly one group, copied nowhere; or a member of no group,   *)
(* copied once to the output by the second loop.  The second loop copies   *)
(* no index of any group.                                                  *)
C1_ClassifiedOnce ==
    Done =>
        /\ OriginIsCopy
        /\ Len(report["duplicate_groups"]) = Len(duplicates)
        /\ \A i \in DOMAIN original :
               /\ Cardinality(GroupsWith(i)) = (IF Grouped(i) THEN 1 ELSE 0)
               /\ CanonicalIn(i) \subseteq GroupsWith(i)
               /\ Cardinality(CanonicalIn(i)) <= 1
               /\ Cardinality(Yields(i)) =
                      (IF CanonicalIn(i) # {} \/ GroupsWith(i) = {} THEN 1 ELSE 0)
               /\ CanonicalIn(i) # {} => Yields(i) \subseteq FirstPass
               /\ GroupsWith(i) = {} => Yields(i) \subseteq SecondPass
        /\ \A g \in FirstPass : \E i \in DOMAIN original : CanonicalIn(i) = {g}

\* a run that returned with all three classes present, the canonical index
\* not being the first of its group
C1_Witness ==
    /\ Done
    /\ run = 1
    /\ \E i, j, k \in DOMAIN original :
           /\ CanonicalIn(i) # {}
           /\ GroupsWith(j) = GroupsWith(i) /\ j < i /\ Yields(j) = {}
           /\ GroupsWith(k) = {} /\ Yields(k) # {}

---------------------------------------------------------------------------
(* C2: a run of deduplicate_questions on the output corpus of a previous   *)
(* run returns that corpus unchanged, and reports no duplicate group.      *)
C2_Idempotent ==
    (Done /\ run = 2) =>
        /\ AsList(deduplicated) = original
        /\ report["total_duplicates_found"] = 0

---------------------------------------------------------------------------
(* C3: when deduplicate_questions returns, every question of the list it   *)
(* was given, nested metadata included, has the value it had at the call.  *)
C3_InputNotMutated == Done => questions = original

---------------------------------------------------------------------------
(* C4 as claimed: total_after_deduplication + questions_removed = N, and   *)
(* every input index is in the provenance trail (the original_index values *)
(* of source_metadata.all_sources) of exactly one output record.           *)
C4_EveryIndexInOneTrail ==
    Done =>
        /\ report["total_after_deduplication"] + report["questions_removed"]
               = Count(original)
        /\ \A i \in DOMAIN original :
               Cardinality({p \in 1..Len(deduplicated) : i \in Trail(deduplicated[p])}) = 1

(* C4 as amended: total_after_deduplication + questions_removed = N; every *)
(* input index of a duplicate group is in the provenance trail of exactly  *)
(* one first-loop output record, that of its group, once; an index of no   *)
(* group is in the trail of no first-loop record, and is copied to exactly *)
(* one second-loop record, which gets no source_metadata of its own.       *)
C4_Conservation ==
    Done =>
        /\ report["total_after_deduplication"] + report["questions_removed"]
               = Count(original)
        /\ \A i \in DOMAIN original :
               LET holders == {p \in FirstPass : i \in Trail(deduplicated[p])}
               IN  /\ Grouped(i) =>
                          /\ holders = GroupsWith(i)
                          /\ Cardinality(holders) = 1
                          /\ \A p \in holders :
                                 LET all == deduplicated[p]["source_metadata"].all_sources
                                 IN  Cardinality({k \in 1..Len(all) :
                                                     all[k].original_index = i}) = 1
                   /\ ~Grouped(i) =>
                          /\ holders = {}
                          /\ Cardinality(Yields(i) \cap SecondPass) = 1
                          /\ \A p \in Yields(i) :
                                 /\ ("source_metadata" \in DOMAIN deduplicated[p])
                                        = ("source_metadata" \in DOMAIN original[i])
                                 /\ "source_metadata" \in DOMAIN original[i] =>
                                        deduplicated[p]["source_metadata"]
                                            = original[i]["source_metadata"]

\* a first run that returned with a group of three and a question of no group
C4_Witness ==
    /\ Done
    /\ run = 1
    /\ \E g \in FirstPass : Cardinality(Trail(deduplicated[g])) = 3
    /\ \E i \in DOMAIN original : ~Grouped(i) /\ Yields(i) \cap SecondPass # {}

---------------------------------------------------------------------------
(* C5: in the report returned, total_duplicate_instances is the sum over   *)
(* the duplicate groups of (members - 1), total_after_deduplication is the *)
(* length of the output and equals total_original minus                    *)
(* total_duplicate_instances, and questions_removed equals                 *)
(* total_duplicate_instances.                                              *)
C5_ReportCounts ==
    Done =>
        LET members == {i \in DOMAIN original : Grouped(i)}
            texts == {TextOf(original[i]) : i \in members}
            instances == Cardinality(members) - Cardinality(texts)
        IN  /\ report["total_original"] = Count(original)
            /\ report["total_duplicate_instances"] = instances
            /\ report["total_after_deduplication"] = Len(deduplicated)
            /\ report["total_after_deduplication"]
                   = report["total_original"] - report["total_duplicate_instances"]
            /\ report["questions_removed"] = report["total_duplicate_instances"]

\* a first run that returned with two duplicate groups
C5_Witness ==
    /\ Done
    /\ run = 1
    /\ report["total_duplicates_found"] = 2
    /\ report["total_duplicate_instances"] = 2
    /\ report["questions_removed"] = 2

---------------------------------------------------------------------------
(* C7: the output corpus holds first one enhanced canonical record per     *)
(* duplicate group, in the order in which the groups' texts first occur in *)
(* the input, then the questions of no group in ascending order of their   *)
(* input index; no question of no group precedes a canonical record.       *)
FirstOccurrence(i) == CHOOSE j \in SameText(i) : \A k \in SameText(i) : j <= k

C7_OutputOrder ==
    Done =>
        /\ OriginIsCopy
        /\ Len(duplicates) = Cardinality({TextOf(original[i]) :
                                             i \in {j \in DOMAIN original : Grouped(j)}})
        /\ Len(deduplicated) >= Len(duplicates)
        /\ \A p \in FirstPass :
               /\ Grouped(origin[p])
               /\ deduplicated[p]["metadata"]["is_deduplicated"] = TRUE
        /\ \A p, q \in FirstPass :
               p < q => FirstOccurrence(origin[p]) < FirstOccurrence(origin[q])
        /\ \A p \in SecondPass :
               /\ ~Grouped(origin[p])
               /\ deduplicated[p]["metadata"]["is_deduplicated"] = FALSE
        /\ \A p, q \in SecondPass : p < q => origin[p] < origin[q]

\* a first run that returned with a canonical record taken from a higher
\* index than two questions of no group, which follow it in index order
C7_Witness ==
    /\ Done
    /\ run = 1
    /\ Len(duplicates) = 1
    /\ Len(deduplicated) = 3
    /\ origin[2] < origin[3]
    /\ origin[3] < origin[1]

\* a first run that returned with two groups whose canonical records are
\* not in index order
C7_WitnessGroups ==
    /\ Done
    /\ run = 1
    /\ Len(duplicates) = 2
    /\ origin[2] < origin[1]

---------------------------------------------------------------------------
(* Vocabulary of the properties of select_canonical_version *)

Returned == pc = "returned"

\* the question has a unit code (a missing unit is read as "Unknown")
KnownUnit(q) == "unit" \in DOMAIN q /\ q["unit"] # UNKNOWN

\* the year as a number, a missing year counting as 9999
YearOrSentinel(q) == IF "year" \in DOMAIN q THEN IntOf(q["year"]) ELSE 9999

---------------------------------------------------------------------------
(* C8: for a group with at least one question whose unit is not "Unknown", *)
(* the question select_canonical_version returns has a unit that is not    *)
(* "Unknown", whatever the years and metadata of the members.              *)
C8_KnownUnitFirst ==
    Returned =>
        ((\E i \in DOMAIN questions : KnownUnit(questions[i]))
            => /\ ret[2] = questions[ret[1]]
               /\ KnownUnit(ret[2]))

\* a known-unit question with a later year and no metadata is returned over
\* an Unknown-unit question with an earlier year and metadata
C8_Witness ==
    /\ Returned
    /\ Count(questions) >= 2
    /\ ret[1] = 1
    /\ ~KnownUnit(questions[0])
    /\ YearOrSentinel(questions[0]) < YearOrSentinel(questions[1])
    /\ "metadata" \in DOMAIN questions[0]
    /\ "metadata" \notin DOMAIN questions[1]

---------------------------------------------------------------------------
(* C9: among the members of the group whose unit status (known or          *)
(* Unknown) is that of the returned question, the returned question has    *)
(* the numerically smallest year, a missing year counting as 9999; a       *)
(* question without a year is not returned when a member of the same unit  *)
(* status has a numeric year below 9999.                                   *)
C9_EarliestYear ==
    Returned =>
        \A i \in DOMAIN questions :
            KnownUnit(questions[i]) = KnownUnit(ret[2]) =>
                /\ YearOrSentinel(ret[2]) <= YearOrSentinel(questions[i])
                /\ ("year" \notin DOMAIN ret[2] /\ "year" \in DOMAIN questions[i])
                       => IntOf(questions[i]["year"]) >= 9999

\* the first member has no year, a later member of the same unit status has
\* one, and the later member is returned
C9_Witness ==
    /\ Returned
    /\ Count(questions) = 3
    /\ "year" \notin DOMAIN questions[0]
    /\ "year" \in DOMAIN questions[2]
    /\ KnownUnit(questions[0]) = KnownUnit(questions[2])
    /\ YearOrSentinel(questions[2]) < YearOrSentinel(questions[1])
    /\ ret[1] = 2

---------------------------------------------------------------------------
(* C10: merge_sources returns source_pdfs as the lexicographically sorted  *)
(* sequence of the distinct source_file values of the members that have    *)
(* one and years_found as the sorted sequence of their distinct years,     *)
(* each value once, while all_sources has one entry per member.            *)
StrictlyAscending(seq) == \A p \in 1..(Len(seq) - 1) : StrLess(seq[p], seq[p + 1])

ValuesOf(k) == {questions[i][k] : i \in {j \in DOMAIN questions : k \in DOMAIN questions[j]}}

---------------------------------------------------------------------------
(* find_duplicates invoked directly on a list *)

\* question texts that differ in leading or trailing blanks, in an interior
\* blank, or in the case of a letter; <<" ">> is blank only
FindTexts ==
    { <<" ">>,
      <<" ", "a", " ", "b">>,
      <<"a", " ", "b", " ">>,
      <<"a", " ", " ", "b">>,
      <<"A", " ", "b">> }

\* a question of the list: the 'question' key may be missing
FindPool == {Dict(t) : t \in Opt("question", FindTexts)}

InitFind ==
    /\ \E n \in 0..MaxN : questions \in [0..(n - 1) -> FindPool]
    /\ original = questions
    /\ pc = "start"
    /\ duplicates = <<>>
    /\ gi = 1
    /\ indices_to_keep = {}
    /\ deduplicated = <<>>
    /\ report = EmptyDict
    /\ origin = <<>>
    /\ run = 1
    /\ ret = None
    /\ NoOutside

FindReturns ==
    /\ pc = "start"
    /\ ret' = find_duplicates(questions)
    /\ pc' = "returned"
    /\ UNCHANGED outside
    /\ UNCHANGED <<questions, original, duplicates, gi, indices_to_keep,
                   deduplicated, report, origin, run>>

NextFind == FindReturns

SpecFind == InitFind /\ [][NextFind]_vars

---------------------------------------------------------------------------
(* C11: grouping by trimmed question text *)

\* s without its leading and trailing blanks, said without recursion: the
\* stretch from the first to the last character that is not a blank
Trimmed(s) ==
    LET solid == {i \in 1..Len(s) : s[i] # " "}
    IN  IF solid = {} THEN <<>>
        ELSE SubSeq(s, CHOOSE i \in solid : \A j \in solid : i <= j,
                       CHOOSE i \in solid : \A j \in solid : j <= i)

\* the text a question is grouped by
TrimmedText(i) == Trimmed(Get(questions[i], "question", <<>>))

\* the indices whose trimmed text is t
Sharing(t) == {i \in DOMAIN questions : TrimmedText(i) = t}

\* C11: find_duplicates returns exactly one entry for each trimmed text found
\* at two or more indices, holding all the indices with that trimmed text, and
\* no entry for a text found at one index; two indices are in the same entry
\* if and only if their texts are equal after trimming, character for
\* character (letter case and interior blanks count)
C11_Grouping ==
    Returned =>
        /\ \A g \in 1..Len(ret) :
              /\ Range(ret[g].indices) = Sharing(ret[g].text)
              /\ Len(ret[g].indices) = Cardinality(Sharing(ret[g].text))
              /\ Len(ret[g].indices) >= 2
        /\ \A g, h \in 1..Len(ret) : ret[g].text = ret[h].text => g = h
        /\ \A i \in DOMAIN questions :
              Cardinality(Sharing(TrimmedText(i))) >= 2 =>
                  \E g \in 1..Len(ret) : ret[g].text = TrimmedText(i)
        /\ \A i, j \in DOMAIN questions :
              i # j =>
                  ((\E g \in 1..Len(ret) : {i, j} \subseteq Range(ret[g].indices))
                      <=> TrimmedText(i) = TrimmedText(j))

\* a group of two texts that differ before trimming, beside a text that
\* differs from it by an interior blank and one that differs by letter case,
\* both left out of every group
C11_Witness ==
    /\ Returned
    /\ Len(ret) = 1
    /\ \E i, j, k, l \in DOMAIN questions :
          /\ Range(ret[1].indices) = {i, j}
          /\ questions[i] # questions[j]
          /\ Get(questions[k], "question", <<>>) = <<"a", " ", " ", "b">>
          /\ Get(questions[l], "question", <<>>) = <<"A", " ", "b">>

---------------------------------------------------------------------------
(* C12, C13: the error paths of select_canonical_version and merge_sources *)

Raised == pc = "error"

\* the index list of the direct call is not a duplicate group
InvalidGroup == Count(questions) < 2

\* C12: select_canonical_version and merge_sources, called with an index list
\* that is empty or has one entry, signal an error and return nothing
C12_InvalidGroupSignalled == InvalidGroup => ~Returned

\* a group member whose year is present and not numeric
NonNumericYear(q) == "year" \in DOMAIN q /\ ~IsNumeric(q["year"])

\* C13: select_canonical_version, called on a group with a member whose year
\* is present and not numeric, completes without raising
C13_NonNumericYearCompletes ==
    (~InvalidGroup /\ \E i \in DOMAIN questions : NonNumericYear(questions[i]))
        => ~Raised

---------------------------------------------------------------------------
(* main of deduplicate_questions.py: load, deduplicate, save corpus, save report *)

MaxMain == 2       \* longest list in the input file of main

INPUT_FILE == "extracted_questions.json"

OUTPUT_FILE == "past_questions_deduplicated.json"

REPORT_FILE == "deduplication_report.json"

\* states of a file: not there, there but not JSON, opened for writing and
\* left before json.dump completed, holding the JSON text of a value
Absent == [state |-> "absent"]

Malformed == [state |-> "malformed"]

Truncated == [state |-> "truncated"]

Stored(v) == [state |-> "complete", data |-> v]

InitMain ==
    /\ \E n \in 0..MaxMain :
          \E input \in {Absent, Malformed} \cup {Stored(qs) : qs \in [0..(n - 1) -> EnginePool]} :
              disk = Dict(<< <<INPUT_FILE, input>>, <<OUTPUT_FILE, Absent>>,
                             <<REPORT_FILE, Absent>> >>)
    /\ questions = <<>>
    /\ original = <<>>
    /\ pc = "main"
    /\ NoLocals
    /\ ret = None
    /\ args = EmptyDict
    /\ sent = <<>>
    /\ default_mode = None

\* load_questions(INPUT_FILE) returns the list held by the file
MainLoads ==
    /\ pc = "main"
    /\ disk[INPUT_FILE].state = "complete"
    /\ questions' = disk[INPUT_FILE].data
    /\ original' = disk[INPUT_FILE].data
    /\ pc' = "start"
    /\ UNCHANGED <<locals, ret, outside>>

\* open() raises FileNotFoundError or json.load raises JSONDecodeError
MainLoadRaises ==
    /\ pc = "main"
    /\ disk[INPUT_FILE].state # "complete"
    /\ pc' = "error"
    /\ UNCHANGED <<questions, original, locals, ret, outside>>

\* open(OUTPUT_FILE, 'w') and json.dump(deduplicated, f) complete
SaveCorpus ==
    /\ pc = "done"
    /\ disk' = Put(disk, OUTPUT_FILE, Stored(deduplicated))
    /\ pc' = "corpus_saved"
    /\ UNCHANGED <<questions, original, locals, ret, args, sent, default_mode>>

\* an OSError out of open() leaves the file as it was, one out of json.dump
\* leaves a file that was opened for writing and not completed
SaveCorpusRaises ==
    /\ pc = "done"
    /\ \E left \in {disk[OUTPUT_FILE], Truncated} : disk' = Put(disk, OUTPUT_FILE, left)
    /\ pc' = "error"
    /\ UNCHANGED <<questions, original, locals, ret, args, sent, default_mode>>

\* open(REPORT_FILE, 'w') and json.dump(report, f) complete
SaveReport ==
    /\ pc = "corpus_saved"
    /\ disk' = Put(disk, REPORT_FILE, Stored(report))
    /\ pc' = "finished"
    /\ UNCHANGED <<questions, original, locals, ret, args, sent, default_mode>>

SaveReportRaises ==
    /\ pc = "corpus_saved"
    /\ \E left \in {disk[REPORT_FILE], Truncated} : disk' = Put(disk, REPORT_FILE, left)
    /\ pc' = "error"
    /\ UNCHANGED <<questions, original, locals, ret, args, sent, default_mode>>

NextMain ==
    \/ MainLoads \/ MainLoadRaises
    \/ Call \/ ProcessGroup \/ GroupRaises \/ AddNonDuplicates
    \/ SaveCorpus \/ SaveCorpusRaises
    \/ SaveReport \/ SaveReportRaises

SpecMain == InitMain /\ [][NextMain]_vars

---------------------------------------------------------------------------
(* C14: all-or-nothing output of main *)

\* C14: when a run of main has failed, while loading the input or while
\* writing either output file, neither output file has been written, fully or
\* partly
C14_AllOrNothing ==
    Raised => disk[OUTPUT_FILE] = Absent /\ disk[REPORT_FILE] = Absent

---------------------------------------------------------------------------
(* C15: caller data is preserved *)

\* the metadata keys deduplicate_questions stores
EngineMetadataKeys == {"source_pdfs", "years_found", "is_deduplicated", "duplicate_count"}

\* the metadata dict of a record, empty when the record has none
MetadataOf(q) == Get(q, "metadata", EmptyDict)

\* C15: when deduplicate_questions returns, every output record has every
\* top-level field of the input record it is derived from, with the same
\* value for every field but metadata and source_metadata, and its metadata
\* has every key of the input record's metadata, with the same value for
\* every key but source_pdfs, years_found, is_deduplicated, duplicate_count
C15_CallerDataPreserved ==
    Done =>
        /\ Len(origin) = Len(deduplicated)
        /\ \A p \in 1..Len(deduplicated) :
              LET src == original[origin[p]]
                  out == deduplicated[p]
              IN  /\ DOMAIN src \subseteq DOMAIN out
                  /\ \A k \in DOMAIN src \ {"metadata", "source_metadata"} :
                         out[k] = src[k]
                  /\ DOMAIN MetadataOf(src) \subseteq DOMAIN MetadataOf(out)
                  /\ \A k \in DOMAIN MetadataOf(src) \ EngineMetadataKeys :
                         MetadataOf(out)[k] = MetadataOf(src)[k]

\* a canonical record and a non-duplicate record both derived from input
\* records with a field the engine does not know and a metadata key of the
\* caller's own
C15_Witness ==
    /\ Done
    /\ \E p \in FirstPass, r \in SecondPass :
          \A s \in {p, r} :
              /\ "marks" \in DOMAIN original[origin[s]]
              /\ "topic" \in DOMAIN MetadataOf(original[origin[s]])
              /\ "topic" \in DOMAIN MetadataOf(deduplicated[s])

---------------------------------------------------------------------------
(* C16: the enhanced canonical record *)

\* C16: when deduplicate_questions returns, the g-th output record is, for
\* the g-th duplicate group, a copy of the input record at the index
\* select_canonical_version picks, with source_metadata equal to
\* merge_sources of the whole group and a metadata dict (the record's own
\* keys kept, created when the record has none) whose source_pdfs and
\* years_found are those of the merged provenance, whose is_deduplicated is
\* true and whose duplicate_count is the number of indices of the group
C16_EnhancedCanonical ==
    Done =>
        \A g \in 1..Len(duplicates) :
            LET indices == duplicates[g].indices
                canonical_idx == select_canonical_version(original, indices)
                merged == merge_sources(original, indices)
                src == original[canonical_idx]
                out == deduplicated[g]
            IN  /\ origin[g] = canonical_idx
                /\ DOMAIN out = DOMAIN src \cup {"metadata", "source_metadata"}
                /\ \A k \in DOMAIN src \ {"metadata", "source_metadata"} : out[k] = src[k]
                /\ out["source_metadata"] = merged
                /\ DOMAIN out["metadata"] = DOMAIN MetadataOf(src) \cup EngineMetadataKeys
                /\ \A k \in DOMAIN MetadataOf(src) \ EngineMetadataKeys :
                       out["metadata"][k] = MetadataOf(src)[k]
                /\ out["metadata"]["source_pdfs"] = merged.source_pdfs
                /\ out["metadata"]["years_found"] = merged.years_found
                /\ out["metadata"]["is_deduplicated"] = TRUE
                /\ out["metadata"]["duplicate_count"] = Len(indices)

\* two groups, the canonical record of one without a metadata dict, that of
\* the other with the caller's metadata
C16_Witness ==
    /\ Done
    /\ \E g, h \in 1..Len(duplicates) :
          /\ "metadata" \notin DOMAIN original[origin[g]]
          /\ MetadataOf(original[origin[h]]) = CallerMetadata
          /\ deduplicated[g]["metadata"]["duplicate_count"] = 2

---------------------------------------------------------------------------
(* C17: the corpus of three papers, end to end *)

\* the first run on the corpus of three papers has returned
ThreePapersDone == Done /\ run = 1 /\ original = ThreePapers

\* C17: for the corpus [What is OOP? / Unknown / 2020 / a.pdf,
\* What is OOP? / BBIT106 / 2019 / b.pdf, Define SQL. / BBIT106 / 2021 / c.pdf]
\* deduplicate_questions returns two records, first the "What is OOP?" record
\* of index 1 with duplicate_count 2 and source_pdfs [a.pdf, b.pdf], then
\* "Define SQL." with is_deduplicated false, and a report with
\* total_original 3, one duplicate group, total_duplicate_instances 1,
\* total_after_deduplication 2 and questions_removed 1
C17_ThreePapers ==
    ThreePapersDone =>
        /\ Len(deduplicated) = 2
        /\ origin = <<1, 2>>
        /\ deduplicated[1]["question"] = WhatIsOOP
        /\ deduplicated[1]["unit"] = BBIT106
        /\ deduplicated[1]["year"] = <<"2", "0", "1", "9">>
        /\ deduplicated[1]["source_file"] = Paper("b")
        /\ deduplicated[1]["metadata"]["is_deduplicated"] = TRUE
        /\ deduplicated[1]["metadata"]["duplicate_count"] = 2
        /\ deduplicated[1]["metadata"]["source_pdfs"] = <<Paper("a"), Paper("b")>>
        /\ deduplicated[2]["question"] = DefineSQL
        /\ deduplicated[2]["metadata"]["is_deduplicated"] = FALSE
        /\ report["total_original"] = 3
        /\ report["total_duplicates_found"] = 1
        /\ Len(report["duplicate_groups"]) = 1
        /\ report["total_duplicate_instances"] = 1
        /\ report["total_after_deduplication"] = 2
        /\ report["questions_removed"] = 1

C17_Witness == ThreePapersDone /\ Len(deduplicated) = 2

---------------------------------------------------------------------------
(* apply_unit_fixes of fix_unknown_units.py *)

MaxFix == 2        \* longest dataset apply_unit_fixes loads
MaxEntries == 2    \* most entries of the index mapping of one source file

\* INPUT_FILE of fix_unknown_units.py is the corpus deduplicate_questions.py writes
FIX_INPUT_FILE == OUTPUT_FILE

UNIT_MAPPING == "unit_code_mapping.json"

\* OUTPUT_FILE of fix_unknown_units.py
FIX_OUTPUT_FILE == "past_questions_fixed.json"

\* int(s) of an optionally signed decimal str
ParseInt(s) == IF Head(s) = "-" THEN 0 - IntOf(Tail(s)) ELSE IntOf(s)

\* list[index]: a negative index counts from the end of the list
PyIndex(qs, index) == IF index < 0 THEN index + Count(qs) ELSE index

\* the body of the inner loop for one item of an index mapping
fix_one(qs, index_str, unit_code) ==
    IF unit_code # None
    THEN LET index == ParseInt(index_str)
         IN  IF index < Count(qs)
             THEN [qs EXCEPT ![PyIndex(qs, index)] = Put(@, "unit", unit_code)]
             ELSE qs
    ELSE qs

\* questions[index] raises IndexError
fix_one_raises(qs, index_str, unit_code) ==
    /\ unit_code # None
    /\ ParseInt(index_str) < Count(qs)
    /\ PyIndex(qs, ParseInt(index_str)) \notin DOMAIN qs

\* the items the two nested loops visit, in the order they visit them; a dict
\* is the sequence of its items in insertion order
RECURSIVE fix_items(_)
fix_items(mappings) ==
    IF mappings = <<>> THEN <<>>
    ELSE Head(mappings)[2] \o fix_items(Tail(mappings))

\* questions after the first k visited items
RECURSIVE fixed_upto(_, _, _)
fixed_upto(qs, items, k) ==
    IF k = 0 THEN qs
    ELSE fix_one(fixed_upto(qs, items, k - 1), items[k][1], items[k][2])

apply_raises(qs, mappings) ==
    LET items == fix_items(mappings)
    IN  \E k \in 1..Len(items) :
            fix_one_raises(fixed_upto(qs, items, k - 1), items[k][1], items[k][2])

apply_fixed(qs, mappings) ==
    LET items == fix_items(mappings) IN fixed_upto(qs, items, Len(items))

\* index keys and unit codes of a mapping file; JSON null is None
FixKeys == {<<"0">>, <<"1">>, <<"-", "1">>}

FixCodes == {None, BBIT106}

\* the index mappings of one source file: items with pairwise different keys
IndexMappings ==
    UNION {{m \in [1..n -> FixKeys \X FixCodes] :
               \A i, j \in 1..n : i # j => m[i][1] # m[j][1]} : n \in 0..MaxEntries}

\* the value of 'mappings': one index mapping for each of two source files
MappingsPool == {<< <<"a", m>>, <<"b", w>> >> : m \in IndexMappings, w \in IndexMappings}

\* the mapping file: missing, or a dict with or without the key 'mappings'
MappingFiles ==
    {Absent, Stored(EmptyDict)} \cup {Stored(Dict(<< <<"mappings", m>> >>)) : m \in MappingsPool}

FixPool ==
    { Dict(<< <<"question", <<"a">>>>, <<"unit", UNKNOWN>> >>),
      Dict(<< <<"question", <<"b">>>> >>) }

InitFix ==
    /\ \E n \in 0..MaxFix :
          \E qs \in [0..(n - 1) -> FixPool], mf \in MappingFiles :
              disk = Dict(<< <<FIX_INPUT_FILE, Stored(qs)>>, <<UNIT_MAPPING, mf>>,
                             <<FIX_OUTPUT_FILE, Absent>> >>)
    /\ questions = <<>>
    /\ original = <<>>
    /\ pc = "start"
    /\ NoLocals
    /\ ret = None
    /\ args = EmptyDict
    /\ sent = <<>>
    /\ default_mode = None

\* os.path.exists(mapping_file) is false
ApplyWithoutMapping ==
    /\ pc = "start"
    /\ disk[UNIT_MAPPING] = Absent
    /\ ret' = FALSE
    /\ pc' = "returned"
    /\ UNCHANGED <<questions, original, locals, outside>>

\* both files are loaded, the fixes applied and the dataset saved
ApplyFixes ==
    /\ pc = "start"
    /\ disk[UNIT_MAPPING] # Absent
    /\ LET loaded == disk[FIX_INPUT_FILE].data
           mappings == Get(disk[UNIT_MAPPING].data, "mappings", <<>>)
       IN  /\ ~apply_raises(loaded, mappings)
           /\ original' = loaded
           /\ questions' = apply_fixed(loaded, mappings)
           /\ disk' = Put(disk, FIX_OUTPUT_FILE, Stored(apply_fixed(loaded, mappings)))
    /\ ret' = TRUE
    /\ pc' = "returned"
    /\ UNCHANGED <<locals, args, sent, default_mode>>

\* questions[index] raises IndexError, which nothing catches
ApplyRaises ==
    /\ pc = "start"
    /\ disk[UNIT_MAPPING] # Absent
    /\ apply_raises(disk[FIX_INPUT_FILE].data,
                    Get(disk[UNIT_MAPPING].data, "mappings", <<>>))
    /\ pc' = "error"
    /\ UNCHANGED <<questions, original, locals, ret, outside>>

NextFix == ApplyWithoutMapping \/ ApplyFixes \/ ApplyRaises

SpecFix == InitFix /\ [][NextFix]_vars

---------------------------------------------------------------------------
(* C18: apply_unit_fixes changes nothing but mapped units *)

\* the items of the mapping file the call has read
MappingItems == fix_items(Get(disk[UNIT_MAPPING].data, "mappings", <<>>))

\* the positional index i is mapped to a unit code that is not null
MappedToCode(i) ==
    \E k \in 1..Len(MappingItems) :
        /\ ParseInt(MappingItems[k][1]) = i
        /\ MappingItems[k][2] # None

\* C18: the dataset apply_unit_fixes saves has the length and the order of
\* the dataset it loaded, every field but unit of every record is unchanged,
\* and the unit of a record differs only if the positional index of the
\* record is mapped to a unit code that is not null
C18_OnlyMappedUnitsChange ==
    (Returned /\ ret = TRUE) =>
        LET loaded == disk[FIX_INPUT_FILE].data
            saved == disk[FIX_OUTPUT_FILE].data
        IN  /\ disk[FIX_OUTPUT_FILE].state = "complete"
            /\ DOMAIN saved = DOMAIN loaded
            /\ \A i \in DOMAIN loaded :
                  /\ DOMAIN saved[i] \ {"unit"} = DOMAIN loaded[i] \ {"unit"}
                  /\ \A k \in DOMAIN loaded[i] \ {"unit"} : saved[i][k] = loaded[i][k]
                  /\ saved[i] # loaded[i] => MappedToCode(i)

---------------------------------------------------------------------------
(* ITutorApp.generate_cat_quiz of app/main.py *)

MaxLoaded == 3     \* most questions the question loader holds

\* QuestionLoader.filter_by_unit is in scripts/load_data.py: taken to keep,
\* in their order, the questions whose unit is unit_name; these are the
\* positions it keeps
filter_positions(qs, unit_name) ==
    SelectSeq(AllIndices(qs), LAMBDA i : Get(qs[i], "unit", None) = unit_name)

\* get_unit: the list filter_by_unit returns
get_unit(qs, unit_name) ==
    LET kept == filter_positions(qs, unit_name)
    IN  [p \in 1..Len(kept) |-> qs[kept[p]]]

\* variant: the quiz always has every question of the unit
quiz_size_AllOfUnit(unit_questions, num_questions) == Len(unit_questions)

\* num_questions after the check for enough questions
quiz_size(unit_questions, num_questions) ==
    IF Len(unit_questions) < num_questions THEN Len(unit_questions) ELSE num_questions

\* random.sample(population, k) raises ValueError
sample_raises(population, k) == k < 0 \/ k > Len(population)

\* random.sample(population, k) picks k different positions, in any order
Samples(population, k) ==
    {s \in [1..k -> 1..Len(population)] : \A i, j \in 1..k : i # j => s[i] # s[j]}

\* datetime.now().isoformat()
Clock == {<<"t", "1">>, <<"t", "2">>}

\* the quiz dict
quiz(unit, quiz_questions, generated_at) ==
    Dict(<< <<"unit", unit>>, <<"num_questions", Len(quiz_questions)>>,
            <<"generated_at", generated_at>>, <<"questions", quiz_questions>> >>)

QuizPool ==
    {Dict(<< <<"question", t>>, <<"unit", u>> >>) :
        t \in {<<"a">>, <<"b">>}, u \in {BBIT106, UNKNOWN}}

InitQuiz ==
    /\ \E n \in 0..MaxLoaded : questions \in [0..(n - 1) -> QuizPool]
    /\ original = questions
    /\ \E u \in {BBIT106, UNKNOWN}, k \in (0 - 1)..MaxLoaded :
          args = Dict(<< <<"unit", u>>, <<"num_questions", k>> >>)
    /\ pc = "start"
    /\ NoLocals
    /\ ret = None
    /\ disk = EmptyDict
    /\ sent = <<>>
    /\ default_mode = None

\* the unit has no questions: None is returned
QuizWithoutQuestions ==
    /\ pc = "start"
    /\ get_unit(questions, args["unit"]) = <<>>
    /\ ret' = None
    /\ pc' = "returned"
    /\ UNCHANGED <<questions, original, locals, outside>>

\* a quiz is sampled and returned
QuizReturns ==
    /\ pc = "start"
    /\ LET unit_questions == get_unit(questions, args["unit"])
           num_questions == quiz_size(unit_questions, args["num_questions"])
       IN  /\ unit_questions # <<>>
           /\ ~sample_raises(unit_questions, num_questions)
           /\ \E s \in Samples(unit_questions, num_questions), now \in Clock :
                 /\ ret' = quiz(args["unit"],
                                [p \in 1..num_questions |-> unit_questions[s[p]]], now)
                 /\ origin' = [p \in 1..num_questions |->
                                  filter_positions(questions, args["unit"])[s[p]]]
    /\ pc' = "returned"
    /\ UNCHANGED <<questions, original, duplicates, gi, indices_to_keep,
                   deduplicated, report, run, outside>>

\* random.sample raises ValueError, which nothing catches
QuizRaises ==
    /\ pc = "start"
    /\ LET unit_questions == get_unit(questions, args["unit"])
       IN  /\ unit_questions # <<>>
           /\ sample_raises(unit_questions,
                            quiz_size(unit_questions, args["num_questions"]))
    /\ pc' = "error"
    /\ UNCHANGED <<questions, original, locals, ret, outside>>

NextQuiz == QuizWithoutQuestions \/ QuizReturns \/ QuizRaises

SpecQuiz == InitQuiz /\ [][NextQuiz]_vars

---------------------------------------------------------------------------
(* C19: the quiz of a unit with too few questions *)

\* the positions of the questions of the unit asked for
OfUnit == Range(filter_positions(questions, args["unit"]))

Asked == args["num_questions"]

\* ret is a quiz of n questions of the unit asked for, from n positions
IsQuizOf(n) ==
    /\ ret # None
    /\ ret["unit"] = args["unit"]
    /\ ret["num_questions"] = n
    /\ Len(ret["questions"]) = n
    /\ Len(origin) = n
    /\ \A p \in 1..n : origin[p] \in OfUnit /\ ret["questions"][p] = questions[origin[p]]
    /\ \A p, r \in 1..n : p # r => origin[p] # origin[r]

---------------------------------------------------------------------------
(* MCPClient.answer_question of mcp/client.py, with scripts/prompts.py *)

ExamMode == <<"e", "x", "a", "m">>

LocalMode == <<"l", "o", "c", "a", "l">>

GlobalMode == <<"g", "l", "o", "b", "a", "l">>

MixedMode == <<"m", "i", "x", "e", "d">>

\* a template is held as the sequence of its parts: the instructions of the
\* mode, the heading, the replacement field, the closing line
Template(instructions) == <<instructions, "QUESTION:", "{question}", "ANSWER:">>

PROMPT_TEMPLATES ==
    [mode \in {ExamMode, LocalMode, GlobalMode, MixedMode} |->
        CASE mode = ExamMode -> Template("exam")
          [] mode = LocalMode -> Template("local")
          [] mode = GlobalMode -> Template("global")
          [] mode = MixedMode -> Template("mixed")]

\* PROMPT_TEMPLATES.get(mode)
get_prompt_template(mode) ==
    IF mode \in DOMAIN PROMPT_TEMPLATES THEN PROMPT_TEMPLATES[mode] ELSE None

\* template.format(question=question): the replacement field gives way to
\* the question, which is put in as it is
format_prompt(question, mode) ==
    LET template == get_prompt_template(mode)
    IN  IF template = None THEN None
        ELSE [p \in 1..Len(template) |->
                 IF template[p] = "{question}" THEN question ELSE template[p]]

validate_mode(mode) == mode \in DOMAIN PROMPT_TEMPLATES

\* variant: a missing mode is left as it is
effective_mode_NoDefault(mode, default) == mode

\* mode after "if mode is None: mode = self.default_mode"
effective_mode(mode, default) == IF mode = None THEN default ELSE mode

\* temperatures in tenths
temperature_map ==
    [mode \in {ExamMode, LocalMode, GlobalMode, MixedMode} |->
        CASE mode = ExamMode -> 5
          [] mode = LocalMode -> 7
          [] mode = GlobalMode -> 7
          [] mode = MixedMode -> 6]

\* a temperature of None is an args dict without the key
effective_temperature(a, mode) ==
    IF "temperature" \in DOMAIN a THEN a["temperature"]
    ELSE IF mode \in DOMAIN temperature_map THEN temperature_map[mode] ELSE 7

\* OllamaClient.query_model is in scripts/ollama_client.py: taken to return
\* the text the model generates, which may be empty, or None
Answers == {None, <<>>, <<"o", "k">>}

\* modes a caller may pass or construct the client with: the four of
\* PROMPT_TEMPLATES, one in upper case, one unheard of
ModePool == {ExamMode, LocalMode, GlobalMode, MixedMode, <<"E", "X", "A", "M">>, <<"q", "u", "i", "z">>}

QuestionPool == {<<"a">>, <<"{", "q", "}">>}

InitAnswer ==
    /\ default_mode \in ModePool
    /\ \E m \in ModePool \cup {None}, q \in QuestionPool, t \in Opt("temperature", {3}) :
          args = Dict(<< <<"question", q>>, <<"mode", m>> >> \o t)
    /\ sent = <<>>
    /\ questions = <<>>
    /\ original = <<>>
    /\ pc = "start"
    /\ NoLocals
    /\ ret = None
    /\ disk = EmptyDict

\* the mode is not valid, or no prompt comes back: None is returned
AnswerWithoutQuery ==
    /\ pc = "start"
    /\ LET mode == effective_mode(args["mode"], default_mode)
       IN  \/ ~validate_mode(mode)
           \/ format_prompt(args["question"], mode) = None
    /\ ret' = None
    /\ pc' = "returned"
    /\ UNCHANGED <<questions, original, locals, outside>>

\* the formatted prompt is sent to the model and its answer returned
AnswerFromModel ==
    /\ pc = "start"
    /\ LET mode == effective_mode(args["mode"], default_mode)
           formatted_prompt == format_prompt(args["question"], mode)
       IN  /\ validate_mode(mode)
           /\ formatted_prompt # None
           /\ sent' = Append(sent, [prompt |-> formatted_prompt,
                                    temperature |-> effective_temperature(args, mode)])
    /\ \E answer \in Answers : ret' = answer
    /\ pc' = "returned"
    /\ UNCHANGED <<questions, original, locals, disk, args, default_mode>>

NextAnswer == AnswerWithoutQuery \/ AnswerFromModel

SpecAnswer == InitAnswer /\ [][NextAnswer]_vars

---------------------------------------------------------------------------
(* C20: the mode is validated before a query is sent *)

ValidModes == {ExamMode, LocalMode, GlobalMode, MixedMode}

\* the mode the call is answered in
ModeInForce == IF args["mode"] = None THEN default_mode ELSE args["mode"]

\* the prompt is the template of the mode with the question in the place of
\* the replacement field
FormattedFrom(prompt, mode) ==
    /\ mode \in ValidModes
    /\ Len(prompt) = Len(PROMPT_TEMPLATES[mode])
    /\ \A p \in 1..Len(prompt) :
          IF PROMPT_TEMPLATES[mode][p] = "{question}"
          THEN prompt[p] = args["question"]
          ELSE prompt[p] = PROMPT_TEMPLATES[mode][p]

\* C20: when answer_question has returned: for a mode that is not exam,
\* local, global or mixed, it has returned None and sent no query; a mode of
\* None stands for default_mode; a query has been sent only with the prompt
\* formatted from the template of the valid mode in force, and for a valid
\* mode in force exactly one has been sent
C20_ModeValidated ==
    Returned =>
        /\ ModeInForce \notin ValidModes => (ret = None /\ sent = <<>>)
        /\ \A k \in 1..Len(sent) : FormattedFrom(sent[k].prompt, ModeInForce)
        /\ ModeInForce \in ValidModes => Len(sent) = 1

\* a call without a mode on a client whose default_mode is valid: the query
\* is sent with the template of default_mode
C20_Witness ==
    /\ Returned
    /\ args["mode"] = None
    /\ default_mode = MixedMode
    /\ Len(sent) = 1
    /\ sent[1].prompt[1] = "mixed"

---------------------------------------------------------------------------
(* One run of deduplicate_questions on a corpus of partial records *)

MaxSparse == 4     \* longest corpus of partial records

\* records lacking some or all of question, unit, year, source_file,
\* question_number and metadata; a question that is empty or blank; a year
\* that is really 9999; a year that is not a number
\* the source_metadata a record kept from an earlier run over another corpus
EarlierProvenance ==
    [source_pdfs |-> << <<"b">> >>,
     years_found |-> << <<"9", "9", "9", "9">> >>,
     all_sources |-> << [year |-> <<"9", "9", "9", "9">>, source_file |-> <<"b">>,
                         question_number |-> None, original_index |-> 0],
                        [year |-> <<"9", "9", "9", "9">>, source_file |-> <<"b">>,
                         question_number |-> None, original_index |-> 5] >>,
     duplicate_count |-> 2]

SparsePool ==
    { EmptyDict,
      Dict(<< <<"question", <<>>>>, <<"unit", BBIT106>>,
              <<"year", <<"9", "9", "9", "9">>>> >>),
      Dict(<< <<"question", <<" ">>>>, <<"metadata", EmptyDict>> >>),
      Dict(<< <<"question", <<"a">>>>, <<"unit", UNKNOWN>>, <<"year", <<"1", "9">>>>,
              <<"source_file", <<"a">>>>, <<"question_number", <<"1">>>>,
              <<"metadata", CallerMetadata>> >>),
      Dict(<< <<"question", <<"a">>>>, <<"year", <<"9", "9", "9", "9">>>>,
              <<"source_file", <<"b">>>>,
              <<"source_metadata", EarlierProvenance>> >>),
      Dict(<< <<"question", <<" ", "a">>>>, <<"unit", BBIT106>> >>),
      Dict(<< <<"question", <<"b">>>>, <<"year", NotAYear>> >>),
      Dict(<< <<"question", <<"b">>>>, <<"unit", BBIT106>>,
              <<"metadata", CallerMetadata>> >>) }

InitSparse ==
    /\ \E n \in 0..MaxSparse : questions \in [0..(n - 1) -> SparsePool]
    /\ original = questions
    /\ pc = "start"
    /\ NoLocals
    /\ ret = None
    /\ NoOutside

NextSparse == Call \/ ProcessGroup \/ GroupRaises \/ AddNonDuplicates

SpecSparse == InitSparse /\ [][NextSparse]_vars

---------------------------------------------------------------------------
(* C21: the groups are processed independently of each other *)

\* the list with every record outside the group blanked out
Masked(qs, indices) ==
    [i \in DOMAIN qs |-> IF i \in Range(indices) THEN qs[i] ELSE EmptyDict]

\* what one iteration of the first loop computes for a group, on the list qs
GroupResult(qs, indices) ==
    LET canonical_idx == select_canonical_version(qs, indices)
        merged == merge_sources(qs, indices)
    IN  [canonical_index |-> canonical_idx,
         merged_sources |-> merged,
         enhanced |-> enhanced_question(qs[canonical_idx], merged),
         entry |-> group_entry(canonical_idx, qs[canonical_idx], indices, merged)]

\* the list after one iteration of the first loop for a group
GroupStep(qs, indices) ==
    questions_after_enhance(qs, select_canonical_version(qs, indices),
                            merge_sources(qs, indices))

\* the indices of the groups the first loop has been through
ProcessedIndices == UNION {Range(duplicates[g].indices) : g \in 1..(gi - 1)}

\* C21: what is computed for a duplicate group depends on the member records
\* of the group alone; processing a group changes no record outside it;
\* any two groups can be processed in either order with the same results and
\* the same list; and the run in source order yields, group by group, the
\* results computed for each group on its own
C21_GroupsIndependent ==
    /\ pc = "groups" =>
          \A i \in DOMAIN questions \ ProcessedIndices : questions[i] = original[i]
    /\ Done =>
          \A g \in 1..Len(duplicates) :
              LET alone == GroupResult(Masked(original, duplicates[g].indices),
                                       duplicates[g].indices)
              IN  /\ origin[g] = alone.canonical_index
                  /\ deduplicated[g] = alone.enhanced
                  /\ report["duplicate_groups"][g] = alone.entry
    /\ Done =>
          \A g, h \in 1..Len(duplicates) :
              g # h =>
                  LET ig == duplicates[g].indices
                      ih == duplicates[h].indices
                      after_h == GroupStep(original, ih)
                  IN  /\ \A i \in DOMAIN original \ Range(ih) : after_h[i] = original[i]
                      /\ GroupResult(after_h, ig) = GroupResult(original, ig)
                      /\ GroupStep(after_h, ig) = GroupStep(GroupStep(original, ig), ih)

\* two groups, the processing of which has written into the input list
C21_Witness ==
    /\ Done
    /\ Len(duplicates) = 2
    /\ \E i \in Range(duplicates[1].indices), j \in Range(duplicates[2].indices) :
          questions[i] # original[i] /\ questions[j] # original[j]

---------------------------------------------------------------------------
(* C22: order of the groups and of their indices *)

\* C22: find_duplicates lists the duplicate texts in the order of their first
\* occurrence in the input, the index list of every group is strictly
\* ascending, and every group has at least two indices
C22_FirstSeenOrder ==
    Returned =>
        /\ \A g \in 1..Len(ret) :
              /\ Len(ret[g].indices) >= 2
              /\ \A p \in 1..(Len(ret[g].indices) - 1) :
                    ret[g].indices[p] < ret[g].indices[p + 1]
        /\ \A g, h \in 1..Len(ret) :
              g < h =>
                  \E i \in Range(ret[g].indices) :
                      \A j \in Range(ret[h].indices) : i < j

\* two groups whose indices interleave
C22_Witness ==
    /\ Returned
    /\ Len(ret) = 2
    /\ ret[1].indices = <<0, 2>>
    /\ ret[2].indices = <<1, 3>>

---------------------------------------------------------------------------
(* C23: records without question text *)

\* the question of the record is missing, empty or made of blanks
Blank(q) ==
    \/ "question" \notin DOMAIN q
    \/ \A p \in 1..Len(q["question"]) : q["question"][p] = " "

BlankIndices == {i \in DOMAIN original : Blank(original[i])}

\* C23: when the input has two or more records whose question is missing,
\* empty or blank, find_duplicates puts all of them, and nothing else, in one
\* duplicate group, and deduplicate_questions emits one record for all of
\* them, the canonical record of that group
C23_BlankQuestionsMerged ==
    Cardinality(BlankIndices) >= 2 =>
        /\ pc # "start" =>
              Cardinality({g \in 1..Len(duplicates) :
                              Range(duplicates[g].indices) = BlankIndices}) = 1
        /\ Done =>
              /\ Cardinality({p \in 1..Len(deduplicated) : origin[p] \in BlankIndices}) = 1
              /\ \E g \in FirstPass :
                    /\ origin[g] \in BlankIndices
                    /\ Range(duplicates[g].indices) = BlankIndices
                    /\ deduplicated[g]["metadata"]["duplicate_count"]
                           = Cardinality(BlankIndices)

\* a record with no question, one with an empty question and one with a
\* blank question, merged into one output record
C23_Witness ==
    /\ Done
    /\ Cardinality(BlankIndices) = 3
    /\ \E i, j, k \in BlankIndices :
          /\ "question" \notin DOMAIN original[i]
          /\ Get(original[j], "question", None) = <<>>
          /\ Get(original[k], "question", None) = <<" ">>
    /\ Cardinality({p \in 1..Len(deduplicated) : origin[p] \in BlankIndices}) = 1

---------------------------------------------------------------------------
(* C24, C25: the tie-breaks of select_canonical_version *)

\* the metadata of the record is present and not empty
HasMetadata(q) == "metadata" \in DOMAIN q /\ DOMAIN q["metadata"] # {}

\* two records tie on unit status and on year, an absent year being 9999
TieOnUnitAndYear(q, r) ==
    /\ KnownUnit(q) <=> KnownUnit(r)
    /\ YearOrSentinel(q) = YearOrSentinel(r)

C25_MetadataOnTie ==
    Returned =>
        \A i \in DOMAIN questions :
            (TieOnUnitAndYear(questions[i], ret[2]) /\ HasMetadata(questions[i]))
                => HasMetadata(ret[2])

\* a member without metadata and one with empty metadata, then one that ties
\* with them and has metadata: the third is returned
C25_Witness ==
    /\ Returned
    /\ Count(questions) = 3
    /\ "metadata" \notin DOMAIN questions[0]
    /\ Get(questions[1], "metadata", None) = EmptyDict
    /\ HasMetadata(questions[2])
    /\ TieOnUnitAndYear(questions[0], questions[2])
    /\ TieOnUnitAndYear(questions[1], questions[2])
    /\ ret[1] = 2

---------------------------------------------------------------------------
(* C26: the provenance entries merge_sources returns for a group *)

\* the groups whose record the first loop has written
Written == {g \in FirstPass : g <= Len(deduplicated)}

\* entry e carries field k of record q, None standing for a missing field
Carries(e, q, k) ==
    /\ k \in DOMAIN e
    /\ IF k \in DOMAIN q THEN e[k] = q[k] ELSE e[k] = None

\* C26: the all_sources of a group has one entry per index of the group, in
\* the order of the index list, each with that index as original_index and
\* the year, source_file and question_number of the input record at that
\* index, a missing field being None; duplicate_count is the number of indices
C26_ProvenanceEntries ==
    \A g \in Written :
        LET merged  == deduplicated[g]["source_metadata"]
            indices == duplicates[g].indices
        IN  /\ Len(merged.all_sources) = Len(indices)
            /\ merged.duplicate_count = Len(indices)
            /\ \A p \in 1..Len(indices) :
                   LET e == merged.all_sources[p]
                       q == original[indices[p]]
                   IN  /\ DOMAIN e = {"year", "source_file", "question_number",
                                      "original_index"}
                       /\ e.original_index = indices[p]
                       /\ Carries(e, q, "year")
                       /\ Carries(e, q, "source_file")
                       /\ Carries(e, q, "question_number")

\* a group of two indices that are not neighbours, the first record with all
\* three fields and the second with none of them
C26_Witness ==
    /\ Done
    /\ \E g \in Written :
           LET indices == duplicates[g].indices
           IN  /\ Len(indices) = 2
               /\ indices[2] > indices[1] + 1
               /\ {"year", "source_file", "question_number"}
                      \subseteq DOMAIN original[indices[1]]
               /\ {"year", "source_file", "question_number"}
                      \cap DOMAIN original[indices[2]] = {}
               /\ deduplicated[g]["source_metadata"].all_sources[2].year = None

---------------------------------------------------------------------------
(* C27: the audit list report['duplicate_groups'] *)

\* the audit list, empty before the report is created
AuditList == Get(report, "duplicate_groups", <<>>)

\* C27: the audit list has one entry per processed group, all groups once
\* deduplicate_questions returns, the k-th entry describing the k-th output
\* record: its canonical_index is one of its duplicate_indices and is the
\* index of the input record the k-th output record is a copy of, its
\* canonical_unit and canonical_year are the unit and year of that input
\* record, its duplicate_indices is the index list of the k-th group, and its
\* merged_sources is the source_metadata of the k-th output record
C27_AuditList ==
    /\ Len(AuditList) = Cardinality(Written)
    /\ Done => Len(AuditList) = Len(duplicates)
    /\ \A g \in Written :
           LET e == AuditList[g]
               q == original[e.canonical_index]
           IN  /\ e.duplicate_indices = duplicates[g].indices
               /\ e.canonical_index \in Range(e.duplicate_indices)
               /\ e.canonical_index = origin[g]
               /\ \A k \in DOMAIN q \ {"metadata", "source_metadata"} :
                      /\ k \in DOMAIN deduplicated[g]
                      /\ deduplicated[g][k] = q[k]
               /\ e.canonical_unit = Get(q, "unit", None)
               /\ e.canonical_year = Get(q, "year", None)
               /\ e.merged_sources = deduplicated[g]["source_metadata"]

\* two groups, the canonical question of the first not being its first member
\* and that of the second having neither unit nor year
C27_Witness ==
    /\ Done
    /\ Len(AuditList) = 2
    /\ AuditList[1].canonical_index # AuditList[1].duplicate_indices[1]
    /\ AuditList[1].canonical_index > AuditList[2].canonical_index
    /\ AuditList[2].canonical_unit = None
    /\ AuditList[2].canonical_year = None

---------------------------------------------------------------------------
(* C28: the flag metadata['is_deduplicated'] of the output records *)

\* C28: every output record has metadata with the key is_deduplicated; the
\* flag is true exactly for the records of the first loop, which are those
\* whose text is shared by two or more input records and which have a
\* source_metadata whose duplicate_count is the size of their group, at least
\* two; it is false exactly for the records of the second loop, which have
\* metadata even when the input record has none and whose source_metadata, if
\* any, is the one the input record came with
C28_DedupFlag ==
    \A p \in 1..Len(deduplicated) :
        LET r == deduplicated[p]
            q == original[origin[p]]
        IN  /\ "metadata" \in DOMAIN r
            /\ "is_deduplicated" \in DOMAIN r["metadata"]
            /\ r["metadata"]["is_deduplicated"] <=> p \in FirstPass
            /\ r["metadata"]["is_deduplicated"] <=> Cardinality(SameText(origin[p])) >= 2
            /\ p \in FirstPass =>
                   /\ "source_metadata" \in DOMAIN r
                   /\ r["source_metadata"].duplicate_count = Len(duplicates[p].indices)
                   /\ r["source_metadata"].duplicate_count >= 2
            /\ p \in SecondPass =>
                   IF "source_metadata" \in DOMAIN q
                   THEN r["source_metadata"] = q["source_metadata"]
                   ELSE "source_metadata" \notin DOMAIN r

\* a record of the first loop, then a record of the second loop whose input
\* record has no metadata and one whose input record has a source_metadata
C28_Witness ==
    /\ Done
    /\ FirstPass # {}
    /\ \E p \in SecondPass : "metadata" \notin DOMAIN original[origin[p]]
    /\ \E p \in SecondPass : "source_metadata" \in DOMAIN original[origin[p]]

---------------------------------------------------------------------------
(* C29: records with missing fields *)

\* the fields of a record other than the two dicts the engine stores
OwnFields(q) == DOMAIN q \ {"metadata", "source_metadata"}

\* record q ranks no later than record r on unit status, then on year, a
\* missing unit counting as "Unknown" and a missing year as 9999
RanksNoLater(q, r) ==
    /\ KnownUnit(r) => KnownUnit(q)
    /\ (KnownUnit(q) <=> KnownUnit(r)) => YearOrSentinel(q) <= YearOrSentinel(r)

\* C29: no missing field aborts deduplicate_questions: the run raises only
\* when a member of the group being processed has a year that is present and
\* not numeric, and the selection for any other group returns; the canonical question of every group ranks no
\* later than any member with a missing unit taken as "Unknown" and a missing
\* year as 9999; and no output record has a field, other than metadata and
\* source_metadata, that its input record lacks
C29_MissingFieldsComplete ==
    /\ Raised =>
           \E i \in Range(duplicates[gi].indices) :
               "year" \in DOMAIN original[i] /\ ~IsNumeric(original[i]["year"])
    /\ (pc = "groups" /\ gi <= Len(duplicates)) =>
           \/ ~select_raises(questions, duplicates[gi].indices)
           \/ \E i \in Range(duplicates[gi].indices) :
                  "year" \in DOMAIN original[i] /\ ~IsNumeric(original[i]["year"])
    /\ \A g \in Written :
           \A i \in Range(duplicates[g].indices) :
               RanksNoLater(original[origin[g]], original[i])
    /\ \A p \in 1..Len(deduplicated) :
           /\ OwnFields(deduplicated[p]) = OwnFields(original[origin[p]])
           /\ \A k \in OwnFields(deduplicated[p]) :
                  deduplicated[p][k] = original[origin[p]][k]

\* a run that returns on four records, one with no field at all, in which a
\* group is merged whose canonical question has neither unit nor year nor
\* source_file nor question_number nor metadata
C29_Witness ==
    /\ Done
    /\ Count(original) = 4
    /\ \E i \in DOMAIN original : original[i] = EmptyDict
    /\ \E g \in FirstPass :
           DOMAIN original[origin[g]] \subseteq {"question"}
    /\ \E p \in SecondPass :
           {"year", "source_file", "question_number", "metadata"}
               \cap DOMAIN original[origin[p]] = {}

---------------------------------------------------------------------------
(* C30: the sentinel year stays out of the output and the report *)

\* str(9999)
SentinelText == <<"9", "9", "9", "9">>

\* the year of record r is that of record q: the same value, or missing in both
SameYear(r, q) ==
    /\ "year" \in DOMAIN r <=> "year" \in DOMAIN q
    /\ "year" \in DOMAIN q => r["year"] = q["year"]

\* some member of the list of indices has 9999 as the year it came with
HasSentinelYear(indices) ==
    \E i \in Range(indices) :
        "year" \in DOMAIN original[i] /\ original[i]["year"] = SentinelText

\* C30: for every processed group, the year of the canonical output record is
\* the year of its input record, missing when that one is missing; the
\* canonical_year of the report entry is that year, None when missing; the
\* year of every all_sources entry is the year of the input record at its
\* index, None when missing; and "9999" is among the years_found, in the
\* source_metadata, in the metadata and in the report, only if a member of
\* the group has the year 9999 in the input
C30_SentinelOnlyCompared ==
    \A g \in Written :
        LET r == deduplicated[g]
            q == original[origin[g]]
            e == AuditList[g]
            indices == duplicates[g].indices
            Found == Range(r["source_metadata"].years_found)
                         \cup Range(r["metadata"]["years_found"])
                         \cup Range(e.merged_sources.years_found)
        IN  /\ SameYear(r, q)
            /\ e.canonical_year = Get(q, "year", None)
            /\ \A p \in 1..Len(indices) :
                   /\ r["source_metadata"].all_sources[p].year
                          = Get(original[indices[p]], "year", None)
                   /\ e.merged_sources.all_sources[p].year
                          = Get(original[indices[p]], "year", None)
            /\ SentinelText \in Found => HasSentinelYear(indices)

\* two groups: one whose canonical question has no year, so that it won on
\* its unit against a member with a year, and whose years_found has no
\* "9999"; and one with a member that came with the year 9999
C30_Witness ==
    /\ Done
    /\ \E g \in FirstPass :
           /\ "year" \notin DOMAIN original[origin[g]]
           /\ \E i \in Range(duplicates[g].indices) : "year" \in DOMAIN original[i]
           /\ AuditList[g].canonical_year = None
           /\ SentinelText \notin Range(deduplicated[g]["metadata"]["years_found"])
    /\ \E g \in FirstPass :
           /\ HasSentinelYear(duplicates[g].indices)
           /\ SentinelText \in Range(deduplicated[g]["metadata"]["years_found"])

====
